---- MODULE Spec2Model ----
(***************************************************************************)
(* A model of the CHIP-8 interpreter of chip8/src/lib.rs (struct Chip8)    *)
(* and of its driver loop in sdl/src/main.rs.                              *)
(*                                                                         *)
(* The machine's fields are the variables.  Every public method is one     *)
(* action; fetch and every arm of execute's match are operators on a       *)
(* machine record, applied by the action Tick.  A Rust panic ends the      *)
(* process: it is recorded in `panicked`, the fields keep what had been    *)
(* written before the panic, and no method is called afterwards.           *)
(* Integer overflow of `+`, `-`, `+=`, `-=` panics in a build with         *)
(* overflow checks (debug) and wraps in one without (release): the build   *)
(* is chosen in Init (overflow_checks).                                    *)
(***************************************************************************)
EXTENDS Integers, Sequences, FiniteSets

\* ------------------------------------------------------------ constants
FONTSET_SIZE == 80

FONTSET ==
  << 240, 144, 144, 144, 240,    32,  96,  32,  32, 112,
     240,  16, 240, 128, 240,   240,  16, 240,  16, 240,
     144, 144, 240,  16,  16,   240, 128, 240,  16, 240,
     240, 128, 240, 144, 240,   240,  16,  32,  64,  64,
     240, 144, 240, 144, 240,   240, 144, 240,  16, 240,
     240, 144, 240, 144, 144,   224, 144, 224, 144, 224,
     240, 128, 128, 128, 240,   224, 144, 144, 144, 224,
     240, 128, 240, 128, 240,   240, 128, 240, 128, 128 >>

SCREEN_WIDTH == 64

SCREEN_HEIGHT == 32

RAM_SIZE == 4096

V_REGISTERS == 16

STACK_SIZE == 16

NUM_KEYS == 16

START_ADDR == 512

\* ------------------------------------------------------------ the state
VARIABLES
  program_counter,        \* u16
  ram,                    \* [u8; RAM_SIZE] as the map from the cells written since
                          \* [0; RAM_SIZE] to their bytes: every other cell holds 0
  screen,                 \* [bool; SCREEN_WIDTH * SCREEN_HEIGHT] as the set of the
                          \* indices that hold true
  v_registers,            \* [u8; V_REGISTERS]
  i_register,             \* u16
  delay_timer_register,   \* u8
  sound_timer_register,   \* u8
  stack_pointer,          \* u8
  stack,                  \* [u16; STACK_SIZE]
  key_states,             \* [bool; NUM_KEYS]
  panicked,               \* a method call has panicked: the process is over
  overflow_checks,        \* the build: TRUE debug (overflow panics), FALSE release (wraps)
  loaded,                 \* load() has been called (main.rs: once, before the loop)
  trail,                  \* history: the last TrailLen instructions executed, each
                          \* with the registers before it (newest last)
  rom,                    \* history: the bytes load() was given (<< >> before it)
  timer_log,              \* history, for each timer: << v, k >> once Fx15 / Fx18 has
                          \* set it to v and k calls of tick_timers() have followed
                          \* (<< >> before that)
  call_log,               \* history: for each call not yet returned from, oldest
                          \* first, the address it was fetched at and the stack
                          \* pointer it found
  calls,                  \* main.rs, history: the calls of the current frame, in order
  gameloop,               \* main.rs: where main() is ("setup" before its loop)
  frame_ticks             \* main.rs: the tick() calls made in the current frame

chip8_vars == << program_counter, ram, screen, v_registers, i_register,
                 delay_timer_register, sound_timer_register, stack_pointer,
                 stack, key_states >>

vars == << program_counter, ram, screen, v_registers, i_register,
           delay_timer_register, sound_timer_register, stack_pointer,
           stack, key_states, panicked, overflow_checks, loaded, trail, rom,
           timer_log, call_log, calls, gameloop, frame_ticks >>

\* The machine as one value: the struct's fields and whether a panic occurred.
Chip8 ==
  [ program_counter |-> program_counter, ram |-> ram, screen |-> screen,
    v_registers |-> v_registers, i_register |-> i_register,
    delay_timer_register |-> delay_timer_register,
    sound_timer_register |-> sound_timer_register,
    stack_pointer |-> stack_pointer, stack |-> stack,
    key_states |-> key_states, panicked |-> panicked ]

\* The machine after the step is m.
Becomes(m) ==
  /\ program_counter' = m.program_counter
  /\ ram' = m.ram
  /\ screen' = m.screen
  /\ v_registers' = m.v_registers
  /\ i_register' = m.i_register
  /\ delay_timer_register' = m.delay_timer_register
  /\ sound_timer_register' = m.sound_timer_register
  /\ stack_pointer' = m.stack_pointer
  /\ stack' = m.stack
  /\ key_states' = m.key_states
  /\ panicked' = m.panicked

\* ------------------------------------------------------------ helpers
\* panic!, a failed bounds check or a checked overflow: the fields stay as they are.
Panic(m) == [m EXCEPT !.panicked = TRUE]

\* self.ram[a] for an index a the bounds check has passed.
RamAt(m, a) == IF a \in DOMAIN m.ram THEN m.ram[a] ELSE 0

\* Bit k (0 = least significant) of v.
Bit(v, k) == (v \div (2 ^ k)) % 2

\* u8 | & ^, bit by bit.
BitOr(a, b) ==
  LET f[k \in 0..8] ==
        IF k = 8 THEN 0
        ELSE (IF Bit(a, k) = 1 \/ Bit(b, k) = 1 THEN 2 ^ k ELSE 0) + f[k + 1]
  IN f[0]

BitAnd(a, b) ==
  LET f[k \in 0..8] ==
        IF k = 8 THEN 0
        ELSE (IF Bit(a, k) = 1 /\ Bit(b, k) = 1 THEN 2 ^ k ELSE 0) + f[k + 1]
  IN f[0]

BitXor(a, b) ==
  LET f[k \in 0..8] ==
        IF k = 8 THEN 0
        ELSE (IF Bit(a, k) # Bit(b, k) THEN 2 ^ k ELSE 0) + f[k + 1]
  IN f[0]

\* The four nibbles of an instruction word, most significant first.
digit1(opcode) == (opcode \div 4096) % 16
digit2(opcode) == (opcode \div 256) % 16
digit3(opcode) == (opcode \div 16) % 16
digit4(opcode) == opcode % 16
nnn(opcode) == opcode % 4096
kk(opcode) == opcode % 256

\* ------------------------------------------------------------ Chip8::new
New ==
  [ program_counter |-> START_ADDR,
    ram |-> [a \in 0..(FONTSET_SIZE - 1) |-> FONTSET[a + 1]],
    screen |-> {},
    v_registers |-> [r \in 0..(V_REGISTERS - 1) |-> 0],
    i_register |-> 0,
    delay_timer_register |-> 0,
    sound_timer_register |-> 0,
    stack_pointer |-> 0,
    stack |-> [s \in 0..(STACK_SIZE - 1) |-> 0],
    key_states |-> [k \in 0..(NUM_KEYS - 1) |-> FALSE],
    panicked |-> FALSE ]

\* ------------------------------------------------------------ Chip8::fetch
\* The fetch advancing the program counter by one byte.
fetch_ByOne(m) ==
  IF m.program_counter >= RAM_SIZE \/ m.program_counter + 1 >= RAM_SIZE
  THEN [m |-> Panic(m), opcode |-> 0]
  ELSE [m |-> [m EXCEPT !.program_counter = @ + 1],
        opcode |-> RamAt(m, m.program_counter) * 256 + RamAt(m, m.program_counter + 1)]

\* The two reads are bounds-checked; the machine and the word read.
fetch(m) ==
  IF m.program_counter >= RAM_SIZE \/ m.program_counter + 1 >= RAM_SIZE
  THEN [m |-> Panic(m), opcode |-> 0]
  ELSE [m |-> [m EXCEPT !.program_counter = @ + 2],
        opcode |-> RamAt(m, m.program_counter) * 256 + RamAt(m, m.program_counter + 1)]

\* ------------------------------------------------------------ push / pop
\* push with the slot taken modulo the capacity instead of bounds-checked.
push_Wrapping(m, val) ==
  [m EXCEPT !.stack[m.stack_pointer % STACK_SIZE] = val,
            !.stack_pointer = (@ % STACK_SIZE) + 1]

push(m, val) ==
  IF m.stack_pointer >= STACK_SIZE
  THEN Panic(m)
  ELSE [m EXCEPT !.stack[m.stack_pointer] = val, !.stack_pointer = @ + 1]

\* pop handing out the oldest entry of the stack.
pop_Oldest(m) ==
  IF m.stack_pointer = 0
  THEN IF overflow_checks
       THEN [m |-> Panic(m), val |-> 0]
       ELSE [m |-> Panic([m EXCEPT !.stack_pointer = 255]), val |-> 0]
  ELSE [m |-> [m EXCEPT !.stack_pointer = @ - 1], val |-> m.stack[0]]

\* The machine after pop and the value popped.
pop(m) ==
  IF m.stack_pointer = 0
  THEN IF overflow_checks
       THEN [m |-> Panic(m), val |-> 0]
       ELSE [m |-> Panic([m EXCEPT !.stack_pointer = 255]), val |-> 0]
  ELSE IF m.stack_pointer - 1 >= STACK_SIZE
       THEN [m |-> Panic([m EXCEPT !.stack_pointer = @ - 1]), val |-> 0]
       ELSE [m |-> [m EXCEPT !.stack_pointer = @ - 1], val |-> m.stack[m.stack_pointer - 1]]

\* ------------------------------------------------------------ Chip8::execute
\* One operator per arm of the match; m is the machine after fetch.

\* 0000 - NOP
Exec0000(m) == m

\* 00E0 - CLS
Exec00E0(m) == [m EXCEPT !.screen = {}]

\* 00EE - RET
Exec00EE(m) ==
  LET r == pop(m)
  IN IF r.m.panicked THEN r.m ELSE [r.m EXCEPT !.program_counter = r.val]

\* The jump taken relative to the program counter.
Exec1nnn_Relative(m, opcode) ==
  [m EXCEPT !.program_counter = (@ + nnn(opcode)) % RAM_SIZE]

\* 1nnn - JP addr
Exec1nnn(m, opcode) == [m EXCEPT !.program_counter = nnn(opcode)]

\* 2nnn - CALL addr
Exec2nnn(m, opcode) ==
  LET r == push(m, m.program_counter)
  IN IF r.panicked THEN r ELSE [r EXCEPT !.program_counter = nnn(opcode)]

\* 3xkk - SE Vx, byte
Exec3xkk(m, opcode) ==
  IF m.v_registers[digit2(opcode)] = kk(opcode)
  THEN [m EXCEPT !.program_counter = @ + 2] ELSE m

\* 4xkk - SNE Vx, byte
Exec4xkk(m, opcode) ==
  IF m.v_registers[digit2(opcode)] # kk(opcode)
  THEN [m EXCEPT !.program_counter = @ + 2] ELSE m

\* 5xy0 - SE Vx, Vy
Exec5xy0(m, x, y) ==
  IF m.v_registers[x] = m.v_registers[y]
  THEN [m EXCEPT !.program_counter = @ + 2] ELSE m

\* 6xkk - LD Vx, byte
Exec6xkk(m, opcode) == [m EXCEPT !.v_registers[digit2(opcode)] = kk(opcode)]

\* 7xkk - ADD Vx, byte (wrapping_add)
Exec7xkk(m, opcode) ==
  [m EXCEPT !.v_registers[digit2(opcode)] = (@ + kk(opcode)) % 256]

\* 8xy0 - LD Vx, Vy
Exec8xy0(m, x, y) == [m EXCEPT !.v_registers[x] = m.v_registers[y]]

\* 8xy1 - OR Vx, Vy
Exec8xy1(m, x, y) == [m EXCEPT !.v_registers[x] = BitOr(@, m.v_registers[y])]

\* 8xy2 - AND Vx, Vy
Exec8xy2(m, x, y) == [m EXCEPT !.v_registers[x] = BitAnd(@, m.v_registers[y])]

\* 8xy3 - XOR Vx, Vy
Exec8xy3(m, x, y) == [m EXCEPT !.v_registers[x] = BitXor(@, m.v_registers[y])]

\* 8xy4 with the carry taken one too early (sum >= 255).
Exec8xy4_CarryOffByOne(m, x, y) ==
  LET sum == m.v_registers[x] + m.v_registers[y]
  IN [m EXCEPT !.v_registers =
        [[m.v_registers EXCEPT ![x] = sum % 256] EXCEPT ![15] = IF sum >= 255 THEN 1 ELSE 0]]

\* 8xy4 - ADD Vx, Vy (overflowing_add); Vx is written first, VF last
Exec8xy4(m, x, y) ==
  LET sum == m.v_registers[x] + m.v_registers[y]
      new_vx == sum % 256
      carry == sum > 255
      new_vf == IF carry THEN 1 ELSE 0
  IN [m EXCEPT !.v_registers =
        [[m.v_registers EXCEPT ![x] = new_vx] EXCEPT ![15] = new_vf]]

\* 8xy5 with the flag set only on a strictly greater minuend.
Exec8xy5_StrictBorrow(m, x, y) ==
  LET diff == m.v_registers[x] - m.v_registers[y]
  IN [m EXCEPT !.v_registers =
        [[m.v_registers EXCEPT ![x] = diff % 256] EXCEPT ![15] = IF diff > 0 THEN 1 ELSE 0]]

\* 8xy5 - SUB Vx, Vy (overflowing_sub)
Exec8xy5(m, x, y) ==
  LET diff == m.v_registers[x] - m.v_registers[y]
      new_vx == diff % 256
      borrow == diff < 0
  IN [m EXCEPT !.v_registers =
        [[m.v_registers EXCEPT ![x] = new_vx] EXCEPT ![15] = IF borrow THEN 0 ELSE 1]]

\* 8xy6 shifting the value of Vy into Vx, as the first interpreters did.
Exec8xy6_FromVy(m, x) ==
  LET y == digit3(RamAt(m, m.program_counter - 2) * 256 + RamAt(m, m.program_counter - 1))
      lsb == m.v_registers[y] % 2
  IN [m EXCEPT !.v_registers =
        [[m.v_registers EXCEPT ![x] = m.v_registers[y] \div 2] EXCEPT ![15] = lsb]]

\* 8xy6 - SHR Vx
Exec8xy6(m, x) ==
  LET lsb == m.v_registers[x] % 2
  IN [m EXCEPT !.v_registers =
        [[m.v_registers EXCEPT ![x] = @ \div 2] EXCEPT ![15] = lsb]]

\* 8xy7 with the flag written before the difference.
Exec8xy7_ResultLast(m, x, y) ==
  LET diff == m.v_registers[y] - m.v_registers[x]
      new_vx == diff % 256
      borrow == diff < 0
  IN [m EXCEPT !.v_registers =
        [[m.v_registers EXCEPT ![15] = IF borrow THEN 0 ELSE 1] EXCEPT ![x] = new_vx]]

\* 8xy7 - SUBN Vx, Vy
Exec8xy7(m, x, y) ==
  LET diff == m.v_registers[y] - m.v_registers[x]
      new_vx == diff % 256
      borrow == diff < 0
  IN [m EXCEPT !.v_registers =
        [[m.v_registers EXCEPT ![x] = new_vx] EXCEPT ![15] = IF borrow THEN 0 ELSE 1]]

\* 8xyE - SHL Vx
Exec8xyE(m, x) ==
  LET msb == (m.v_registers[x] \div 128) % 2
  IN [m EXCEPT !.v_registers =
        [[m.v_registers EXCEPT ![x] = (@ * 2) % 256] EXCEPT ![15] = msb]]

\* 9xy0 - SNE Vx, Vy
Exec9xy0(m, x, y) ==
  IF m.v_registers[x] # m.v_registers[y]
  THEN [m EXCEPT !.program_counter = @ + 2] ELSE m

\* Annn - LD I, addr
ExecAnnn(m, opcode) == [m EXCEPT !.i_register = nnn(opcode)]

\* Bnnn - JP V0, addr (the sum is at most 0xFFF + 0xFF: no u16 overflow)
ExecBnnn(m, opcode) == [m EXCEPT !.program_counter = nnn(opcode) + m.v_registers[0]]

\* Cxkk - RND Vx, byte; byte is what random() returned
ExecCxkk(m, opcode, byte) ==
  [m EXCEPT !.v_registers[digit2(opcode)] = BitAnd(byte, kk(opcode))]

\* Dxyn - DRW Vx, Vy, nibble.  s = [screen, flipped] is the loops' state.
\* The inner loop's body with the pixel set instead of toggled.
DrawBit_Or(s, pixels, x_bit, x_coord, y_coord, y_row) ==
  LET x == (x_coord + x_bit) % SCREEN_WIDTH
      y == (y_coord + y_row) % SCREEN_HEIGHT
      idx == x + SCREEN_WIDTH * y
  IN IF Bit(pixels, 7 - x_bit) # 0
     THEN [screen |-> s.screen \cup {idx}, flipped |-> s.flipped \/ idx \in s.screen]
     ELSE s

\* The inner loop's body without the modulo on the column: a sprite that
\* passes the right edge runs on into the following row of the array.
DrawBit_NoWrap(s, pixels, x_bit, x_coord, y_coord, y_row) ==
  LET x == (x_coord % SCREEN_WIDTH) + x_bit
      y == (y_coord + y_row) % SCREEN_HEIGHT
      idx == (x + SCREEN_WIDTH * y) % (SCREEN_WIDTH * SCREEN_HEIGHT)
  IN IF Bit(pixels, 7 - x_bit) # 0
     THEN [screen |-> IF idx \in s.screen THEN s.screen \ {idx} ELSE s.screen \cup {idx},
           flipped |-> s.flipped \/ idx \in s.screen]
     ELSE s

\* The inner loop's body with `flipped = self.screen[idx]` for `flipped |= ...`.
DrawBit_LastOnly(s, pixels, x_bit, x_coord, y_coord, y_row) ==
  LET x == (x_coord + x_bit) % SCREEN_WIDTH
      y == (y_coord + y_row) % SCREEN_HEIGHT
      idx == x + SCREEN_WIDTH * y
  IN IF Bit(pixels, 7 - x_bit) # 0
     THEN [screen |-> IF idx \in s.screen THEN s.screen \ {idx} ELSE s.screen \cup {idx},
           flipped |-> idx \in s.screen]
     ELSE s

\* The inner loop's body for bit x_bit (0 is the most significant) of the row.
DrawBit(s, pixels, x_bit, x_coord, y_coord, y_row) ==
  LET x == (x_coord + x_bit) % SCREEN_WIDTH
      y == (y_coord + y_row) % SCREEN_HEIGHT
      idx == x + SCREEN_WIDTH * y
  IN IF Bit(pixels, 7 - x_bit) # 0
     THEN [screen |-> IF idx \in s.screen THEN s.screen \ {idx} ELSE s.screen \cup {idx},
           flipped |-> s.flipped \/ idx \in s.screen]
     ELSE s

\* The inner loop, for x in 0..8: after[k] is the state after k iterations.
DrawRow(s, pixels, x_coord, y_coord, y_row) ==
  LET after[k \in 0..8] ==
        IF k = 0 THEN s
        ELSE DrawBit(after[k - 1], pixels, k - 1, x_coord, y_coord, y_row)
  IN after[8]

\* The outer loop, for y in 0..n: after[k] is the state after k iterations,
\* with the fault of the read of row k - 1, if any; then the write of VF.
ExecDxyn(m, x, y, n) ==
  LET x_coord == m.v_registers[x]
      y_coord == m.v_registers[y]
      after[k \in 0..n] ==
        IF k = 0 THEN [screen |-> m.screen, flipped |-> FALSE, fault |-> FALSE]
        ELSE LET s == after[k - 1]
                 sum == m.i_register + (k - 1)
                 addr == sum % 65536
             IN IF s.fault THEN s
                ELSE IF (sum > 65535 /\ overflow_checks) \/ addr >= RAM_SIZE
                THEN [s EXCEPT !.fault = TRUE]
                ELSE LET d == DrawRow([screen |-> s.screen, flipped |-> s.flipped],
                                      RamAt(m, addr), x_coord, y_coord, k - 1)
                     IN [screen |-> d.screen, flipped |-> d.flipped, fault |-> FALSE]
      end == after[n]
  IN IF end.fault
     THEN Panic([m EXCEPT !.screen = end.screen])
     ELSE [m EXCEPT !.screen = end.screen,
                    !.v_registers[15] = IF end.flipped THEN 1 ELSE 0]

\* Ex9E - SKP Vx
ExecEx9E(m, x) ==
  IF m.v_registers[x] >= NUM_KEYS THEN Panic(m)
  ELSE IF m.key_states[m.v_registers[x]]
       THEN [m EXCEPT !.program_counter = @ + 2] ELSE m

\* ExA1 - SKNP Vx
ExecExA1(m, x) ==
  IF m.v_registers[x] >= NUM_KEYS THEN Panic(m)
  ELSE IF ~m.key_states[m.v_registers[x]]
       THEN [m EXCEPT !.program_counter = @ + 2] ELSE m

\* Fx07 - LD Vx, DT
ExecFx07(m, x) == [m EXCEPT !.v_registers[x] = m.delay_timer_register]

\* Fx0A - LD Vx, K.  The scan from key i on: the first pressed key, or NUM_KEYS.
RECURSIVE FirstPressed(_, _)
FirstPressed(keys, i) ==
  IF i = NUM_KEYS THEN NUM_KEYS
  ELSE IF keys[i] THEN i ELSE FirstPressed(keys, i + 1)

\* The scan without its break: the last pressed key is the one stored.
RECURSIVE LastPressed(_, _)
LastPressed(keys, i) ==
  IF i = 0 THEN NUM_KEYS
  ELSE IF keys[i - 1] THEN i - 1 ELSE LastPressed(keys, i - 1)

\* Fx0A storing the highest pressed key.
ExecFx0A_NoBreak(m, x) ==
  LET i == LastPressed(m.key_states, NUM_KEYS)
  IN IF i < NUM_KEYS
     THEN [m EXCEPT !.v_registers[x] = i]
     ELSE [m EXCEPT !.program_counter = @ - 2]

\* Fx0A without the rewind of the program counter.
ExecFx0A_NoRewind(m, x) ==
  LET i == FirstPressed(m.key_states, 0)
  IN IF i < NUM_KEYS THEN [m EXCEPT !.v_registers[x] = i] ELSE m

ExecFx0A(m, x) ==
  LET i == FirstPressed(m.key_states, 0)
      pressed == i < NUM_KEYS
  IN IF pressed
     THEN [m EXCEPT !.v_registers[x] = i]
     ELSE IF m.program_counter < 2
          THEN IF overflow_checks THEN Panic(m)
               ELSE [m EXCEPT !.program_counter = (@ - 2) % 65536]
          ELSE [m EXCEPT !.program_counter = @ - 2]

\* Fx15 - LD DT, Vx
ExecFx15(m, x) == [m EXCEPT !.delay_timer_register = m.v_registers[x]]

\* Fx18 - LD ST, Vx
ExecFx18(m, x) == [m EXCEPT !.sound_timer_register = m.v_registers[x]]

\* Fx1E - ADD I, Vx (wrapping_add)
ExecFx1E(m, x) == [m EXCEPT !.i_register = (@ + m.v_registers[x]) % 65536]

\* Fx29 - LD F, Vx
ExecFx29(m, x) == [m EXCEPT !.i_register = m.v_registers[x] * 5]

\* The store with the address taken modulo the memory's size.
Store_Wrapping(m, addr, val) ==
  IF m.panicked THEN m
  ELSE [m EXCEPT !.ram = [a \in DOMAIN m.ram \cup {addr % RAM_SIZE} |->
                            IF a = addr % RAM_SIZE THEN val ELSE m.ram[a]]]

\* One bounds-checked store ram[addr] = val.
Store(m, addr, val) ==
  IF m.panicked THEN m
  ELSE IF addr >= RAM_SIZE THEN Panic(m)
  ELSE [m EXCEPT !.ram = [a \in DOMAIN m.ram \cup {addr} |->
                            IF a = addr THEN val ELSE m.ram[a]]]

\* i_register + k as a u16 index: the machine (panicked on a checked overflow) and the index.
IndexU16(m, k) ==
  LET sum == m.i_register + k
  IN IF sum > 65535 /\ overflow_checks
     THEN [m |-> Panic(m), addr |-> 0]
     ELSE [m |-> m, addr |-> sum % 65536]

\* Fx33 with the tens taken as vx / 10.
ExecFx33_TensNotReduced(m, x) ==
  LET vx == m.v_registers[x]
      m0 == Store(m, m.i_register, vx \div 100)
      a1 == IndexU16(m0, 1)
      m1 == Store(a1.m, a1.addr, vx \div 10)
      a2 == IndexU16(m1, 2)
  IN Store(a2.m, a2.addr, vx % 10)

\* Fx33 - LD B, Vx: three stores in order, each at its own index
ExecFx33(m, x) ==
  LET vx == m.v_registers[x]
      hundreds == vx \div 100
      tens == (vx \div 10) % 10
      digits == vx % 10
      m0 == Store(m, m.i_register, hundreds)
      a1 == IndexU16(m0, 1)
      m1 == Store(a1.m, a1.addr, tens)
      a2 == IndexU16(m1, 2)
  IN Store(a2.m, a2.addr, digits)

\* Fx55 with the loop over 0..x, Vx left out.
ExecFx55_Exclusive(m, x) ==
  LET after[k \in 0..x] ==
        IF k = 0 THEN m ELSE Store(after[k - 1], m.i_register + k - 1, m.v_registers[k - 1])
  IN after[x]

\* Fx55 - LD [I], Vx: the stores i..x of the loop (the index is a usize sum)
RECURSIVE StoreRegisters(_, _, _)
StoreRegisters(m, i, x) ==
  IF i > x \/ m.panicked THEN m
  ELSE StoreRegisters(Store(m, m.i_register + i, m.v_registers[i]), i + 1, x)

ExecFx55(m, x) == StoreRegisters(m, 0, x)

\* Fx65 - LD Vx, [I]: the loads i..x of the loop
RECURSIVE LoadRegisters(_, _, _)
LoadRegisters(m, i, x) ==
  IF i > x THEN m
  ELSE IF m.i_register + i >= RAM_SIZE THEN Panic(m)
  ELSE LoadRegisters([m EXCEPT !.v_registers[i] = RamAt(m, m.i_register + i)], i + 1, x)

ExecFx65(m, x) == LoadRegisters(m, 0, x)

\* The default arm taken as a no-operation.
ExecInvalid_Ignore(m) == m

\* The default arm: panic!("Invalid opcode ...")
ExecInvalid(m) == Panic(m)

\* The match on (digit1, digit2, digit3, digit4); byte is what random() would return.
execute(m, opcode, byte) ==
  LET d1 == digit1(opcode)
      d2 == digit2(opcode)
      d3 == digit3(opcode)
      d4 == digit4(opcode)
  IN CASE opcode = 0 -> Exec0000(m)
       [] opcode = 224 -> Exec00E0(m)
       [] opcode = 238 -> Exec00EE(m)
       [] d1 = 1 -> Exec1nnn(m, opcode)
       [] d1 = 2 -> Exec2nnn(m, opcode)
       [] d1 = 3 -> Exec3xkk(m, opcode)
       [] d1 = 4 -> Exec4xkk(m, opcode)
       [] d1 = 5 /\ d4 = 0 -> Exec5xy0(m, d2, d3)
       [] d1 = 6 -> Exec6xkk(m, opcode)
       [] d1 = 7 -> Exec7xkk(m, opcode)
       [] d1 = 8 /\ d4 = 0 -> Exec8xy0(m, d2, d3)
       [] d1 = 8 /\ d4 = 1 -> Exec8xy1(m, d2, d3)
       [] d1 = 8 /\ d4 = 2 -> Exec8xy2(m, d2, d3)
       [] d1 = 8 /\ d4 = 3 -> Exec8xy3(m, d2, d3)
       [] d1 = 8 /\ d4 = 4 -> Exec8xy4(m, d2, d3)
       [] d1 = 8 /\ d4 = 5 -> Exec8xy5(m, d2, d3)
       [] d1 = 8 /\ d4 = 6 -> Exec8xy6(m, d2)
       [] d1 = 8 /\ d4 = 7 -> Exec8xy7(m, d2, d3)
       [] d1 = 8 /\ d4 = 14 -> Exec8xyE(m, d2)
       [] d1 = 9 /\ d4 = 0 -> Exec9xy0(m, d2, d3)
       [] d1 = 10 -> ExecAnnn(m, opcode)
       [] d1 = 11 -> ExecBnnn(m, opcode)
       [] d1 = 12 -> ExecCxkk(m, opcode, byte)
       [] d1 = 13 -> ExecDxyn(m, d2, d3, d4)
       [] d1 = 14 /\ d3 = 9 /\ d4 = 14 -> ExecEx9E(m, d2)
       [] d1 = 14 /\ d3 = 10 /\ d4 = 1 -> ExecExA1(m, d2)
       [] d1 = 15 /\ d3 = 0 /\ d4 = 7 -> ExecFx07(m, d2)
       [] d1 = 15 /\ d3 = 0 /\ d4 = 10 -> ExecFx0A(m, d2)
       [] d1 = 15 /\ d3 = 1 /\ d4 = 5 -> ExecFx15(m, d2)
       [] d1 = 15 /\ d3 = 1 /\ d4 = 8 -> ExecFx18(m, d2)
       [] d1 = 15 /\ d3 = 1 /\ d4 = 14 -> ExecFx1E(m, d2)
       [] d1 = 15 /\ d3 = 2 /\ d4 = 9 -> ExecFx29(m, d2)
       [] d1 = 15 /\ d3 = 3 /\ d4 = 3 -> ExecFx33(m, d2)
       [] d1 = 15 /\ d3 = 5 /\ d4 = 5 -> ExecFx55(m, d2)
       [] d1 = 15 /\ d3 = 6 /\ d4 = 5 -> ExecFx65(m, d2)
       [] OTHER -> ExecInvalid(m)

\* ------------------------------------------------------------ Chip8::tick
tick(m, byte) ==
  LET f == fetch(m)
  IN IF f.m.panicked THEN f.m ELSE execute(f.m, f.opcode, byte)

\* ------------------------------------------------------------ Chip8::tick_timers
\* The decrements without the tests for zero.
tick_timers_Wrapping(m) ==
  [m EXCEPT !.delay_timer_register = (@ - 1) % 256,
            !.sound_timer_register = (@ - 1) % 256]

tick_timers(m) ==
  [m EXCEPT !.delay_timer_register = IF @ > 0 THEN @ - 1 ELSE @,
            !.sound_timer_register = IF @ > 0 THEN @ - 1 ELSE @]

\* ------------------------------------------------------------ Chip8::keypress
keypress(m, idx, pressed) ==
  IF idx >= NUM_KEYS THEN Panic(m)
  ELSE [m EXCEPT !.key_states[idx] = pressed]

\* ------------------------------------------------------------ Chip8::load
\* load copying to the start of the memory.
load_AtZero(m, data) ==
  IF START_ADDR + Len(data) > RAM_SIZE
  THEN Panic(m)
  ELSE [m EXCEPT !.ram = [a \in DOMAIN m.ram \cup (0..(Len(data) - 1)) |->
                            IF a < Len(data) THEN data[a + 1] ELSE m.ram[a]]]

\* load copying what fits and dropping the rest.
load_Truncating(m, data) ==
  LET start == START_ADDR
      end == IF START_ADDR + Len(data) > RAM_SIZE THEN RAM_SIZE ELSE START_ADDR + Len(data)
  IN [m EXCEPT !.ram = [a \in DOMAIN m.ram \cup (start..(end - 1)) |->
                          IF a >= start /\ a < end THEN data[a - start + 1]
                          ELSE m.ram[a]]]

\* data is a sequence of bytes (data[1] is the slice's element 0).  The range
\* start..end is checked against the array's length before anything is copied.
load(m, data) ==
  LET start == START_ADDR
      end == START_ADDR + Len(data)
  IN IF end > RAM_SIZE
     THEN Panic(m)
     ELSE [m EXCEPT !.ram = [a \in DOMAIN m.ram \cup (start..(end - 1)) |->
                               IF a >= start /\ a < end THEN data[a - start + 1]
                               ELSE m.ram[a]]]

\* ------------------------------------------------------------ programs
\* The instruction word of four nibbles, and a program's bytes from its words.
Word(d1, d2, d3, d4) == d1 * 4096 + d2 * 256 + d3 * 16 + d4

WordK(d1, d2, byte) == d1 * 4096 + d2 * 256 + byte

WordN(d1, addr) == d1 * 4096 + addr

RECURSIVE Bytes(_)
Bytes(words) ==
  IF words = << >> THEN << >>
  ELSE << Head(words) \div 256, Head(words) % 256 >> \o Bytes(Tail(words))

\* The address of the program's word number k (0 is the first).
At(k) == START_ADDR + 2 * k

\* 1nnn to itself at word k: the program stays there.
Halt(k) == WordN(1, At(k))

\* Register indices, byte values and key indices the programs are built from.
RegSamples == {0, 7, 15}

ByteSamples == {0, 1, 128, 255}

KeySamples == {3, 12}

\* 6x a ; 6y b ; 8xy<op> ; halt
AluOps == {4, 5, 6, 7, 14}

AluPrograms ==
  { Bytes(<< WordK(6, x, a), WordK(6, y, b), Word(8, x, y, op), Halt(3) >>) :
      << x, y, a, b, op >> \in RegSamples \X RegSamples \X ByteSamples \X ByteSamples \X AluOps }

\* 6x 0xEE ; Fx0A ; halt
KeyPrograms ==
  { Bytes(<< WordK(6, x, 238), Word(15, x, 0, 10), Halt(2) >>) : x \in RegSamples }

\* Sixteen bytes of sprite rows, as eight words.
SpriteWords == << 65409, 42240, 384, 15486, 50151, 6180, 17049, 23040 >>

\* Coordinates (on the screen, on its last column and row, beyond it) and heights.
XSamples == {0, 63, 200}

YSamples == {0, 31, 100}

NSamples == {0, 1, 5, 15}

DrawRegs == { << 0, 1 >>, << 7, 7 >>, << 15, 0 >>, << 0, 15 >> }

\* 6x vx ; 6y vy ; A<sprite> ; 00E0 ; Dxyn ; Dxyn ; halt ; the sprite rows
DoubleDrawPrograms ==
  { Bytes(<< WordK(6, r[1], vx), WordK(6, r[2], vy), WordN(10, At(7)), 224,
             Word(13, r[1], r[2], n), Word(13, r[1], r[2], n), Halt(6) >> \o SpriteWords) :
      << r, vx, vy, n >> \in DrawRegs \X XSamples \X YSamples \X NSamples }

\* 6x vx ; 6y vy ; A<sprite> ; Dxyn ; 7x dx ; Dxyn ; halt ; the sprite rows:
\* the second draw lies dx to the right of the first and overlaps it in part.
ShiftSamples == {1, 8}

OverlapPrograms ==
  { Bytes(<< WordK(6, r[1], vx), WordK(6, r[2], 31), WordN(10, At(7)),
             Word(13, r[1], r[2], n), WordK(7, r[1], dx), Word(13, r[1], r[2], n),
             Halt(6) >> \o SpriteWords) :
      << r, vx, dx, n >> \in {<< 0, 1 >>, << 0, 15 >>} \X {0, 63} \X ShiftSamples \X {1, 15} }

\* A000 ; D015 ; D015 ; A300 ; D015 ; A000 ; D015 ; D015 ; D010 ; halt: the
\* glyph 0 drawn and erased, then a sprite of zero bytes and one of no rows.
FlagResetProgram ==
  Bytes(<< WordN(10, 0), Word(13, 0, 1, 5), Word(13, 0, 1, 5), WordN(10, 768),
           Word(13, 0, 1, 5), WordN(10, 0), Word(13, 0, 1, 5), Word(13, 0, 1, 5),
           Word(13, 0, 1, 0), Halt(9) >>)

DrawPrograms == DoubleDrawPrograms \cup OverlapPrograms \cup {FlagResetProgram}

\* Address registers in the font, across its end, right after it and in the
\* program area.
FontISamples == {0, 78, 80, 768}

\* 6x v ; A<i> ; Fx33 ; halt
BcdPrograms ==
  { Bytes(<< WordK(6, x, v), WordN(10, i), Word(15, x, 3, 3), Halt(3) >>) :
      << x, v, i >> \in {0, 15} \X {0, 9, 10, 99, 100, 157, 255} \X FontISamples }

\* 60 17 ; 67 34 ; 6F 51 ; A<i> ; Fx55 ; halt
StorePrograms ==
  { Bytes(<< WordK(6, 0, 17), WordK(6, 7, 34), WordK(6, 15, 51), WordN(10, i),
             Word(15, x, 5, 5), Halt(5) >>) :
      << x, i >> \in RegSamples \X FontISamples }

\* 2200: a call of itself, until the stack is full.
\* 00EE: a return on the empty stack.
\* 2202 ; 00EE: a call of the return that follows it, which returns to itself.
\* 2204 ; halt ; 2208 ; 00EE ; 00EE: two nested calls and their returns.
StackPrograms ==
  { Bytes(<< WordN(2, At(0)) >>),
    Bytes(<< 238 >>),
    Bytes(<< WordN(2, At(1)), 238 >>),
    Bytes(<< WordN(2, At(2)), Halt(1), WordN(2, At(4)), 238, 238 >>) }

\* Sixteen nested calls and their returns: word 2i calls word 2i + 2 for
\* i = 0..15, word 32 is a return, and so is every word 2i + 1 a call returns
\* to, but word 1, which is the halt.
NestedCallsProgram ==
  Bytes([ w \in 1..33 |->
            IF w = 2 THEN Halt(1)
            ELSE IF w % 2 = 1 /\ w < 33 THEN WordN(2, At(w + 1))
            ELSE 238 ])

\* The longest data load() accepts (a halt, then filler), and data one byte longer.
LongestData ==
  [k \in 1..(RAM_SIZE - START_ADDR) |->
     IF k = 1 THEN 18 ELSE IF k = 2 THEN 0 ELSE 1 + (k % 255)]

TooLongData == [k \in 1..(RAM_SIZE - START_ADDR + 1) |-> 1 + (k % 255)]

\* 60 v ; F015 ; 61 w ; F118 ; halt
TimerPrograms ==
  { Bytes(<< WordK(6, 0, v), Word(15, 0, 1, 5), WordK(6, 1, w), Word(15, 1, 1, 8),
             Halt(4) >>) :
      << v, w >> \in {0, 1, 3, 255} \X {0, 2} }

\* Words of none of the instruction forms: 0nnn, 5xyN, 9xyN, 8xyN, Exkk, Fxkk.
InvalidWords ==
  { 1, 225, 239, 291, 3840,
    20481, 23231, 36865, 39599,
    32776, 33065, 33066, 33067, 33068, 33069, 33071,
    57344, 57503, 57504, 57757, 61439,
    61440, 61704, 61798, 61695, 61542, 65535 }

\* 0000 ; <word> ; halt
InvalidPrograms == { Bytes(<< 0, w, Halt(2) >>) : w \in InvalidWords }

\* The four instructions that address memory through I: F233, F255, F265, D013.
AccessWords == { Word(15, 2, 3, 3), Word(15, 2, 5, 5), Word(15, 2, 6, 5), Word(13, 0, 1, 3) }

\* 60 v ; 61 22 ; 62 9D ; A<i> ; F01E ; <access> ; halt: I is 0xFFD, 0xFFE,
\* 0xFFF or 0x1000 at the access, which reaches the last cells or passes them.
EdgePrograms ==
  { Bytes(<< WordK(6, 0, v), WordK(6, 1, 34), WordK(6, 2, 157), WordN(10, i),
             Word(15, 0, 1, 14), w, Halt(6) >>) :
      << v, i, w >> \in {0, 1} \X {4093, 4095} \X AccessWords }

\* 60 FF ; 61 00 ; 63 03 ; 64 0C ; AFFF ; (F01E ; 7101 ; 31F0 ; loop) ;
\* 62 F0 ; F21E: I is 0xFFF + 240 * 0xFF + 0xF0 = 0xFFFF.  Then one of the
\* four accesses, chosen by the keys 3 and 12.
HighAddressProgram ==
  Bytes(<< WordK(6, 0, 255), WordK(6, 1, 0), WordK(6, 3, 3), WordK(6, 4, 12),
           WordN(10, 4095),
           Word(15, 0, 1, 14), WordK(7, 1, 1), WordK(3, 1, 240), WordN(1, At(5)),
           WordK(6, 2, 240), Word(15, 2, 1, 14),
           Word(14, 3, 9, 14), WordN(1, At(16)),
           Word(14, 4, 9, 14), Word(15, 2, 3, 3), Word(15, 2, 5, 5),
           Word(14, 4, 9, 14), Word(15, 2, 6, 5), Word(13, 0, 1, 3) >>)

\* 1FFE (the last word, zero: the program counter passes the memory's end),
\* 1FFF (the word across the end), 60 v ; BFFF (0xFFF + v).
FetchEdgePrograms ==
  { Bytes(<< WordN(1, 4094) >>), Bytes(<< WordN(1, 4095) >>) } \cup
  { Bytes(<< WordK(6, 0, v), WordN(11, 4095) >>) : v \in {1, 255} }

AddressPrograms == EdgePrograms \cup {HighAddressProgram} \cup FetchEdgePrograms

\* 6A 05 ; 00 00: the rest of the memory is zero, all no-operations.
TwoWordProgram == Bytes(<< WordK(6, 10, 5), 0 >>)

\* 60 a ; 61 03 ; <skip> ; halt ; halt, with the skips 3003, 4003, 5010, 9010,
\* E09E and E0A1: taken for one value of a (or state of key 3), not for the other.
SkipWords ==
  { WordK(3, 0, 3), WordK(4, 0, 3), Word(5, 0, 1, 0), Word(9, 0, 1, 0),
    Word(14, 0, 9, 14), Word(14, 0, 10, 1) }

SkipPrograms ==
  { Bytes(<< WordK(6, 0, a), WordK(6, 1, 3), w, Halt(3), Halt(4) >>) :
      << a, w >> \in {3, 5} \X SkipWords }

\* 6A 33 ; no-operations ; 1300 as word k ; no-operations ; 1300 at 0x300: a
\* jump to 0x300 from 0x202, 0x204 or 0x20A, and the jump of 0x300 to itself.
JumpPrograms ==
  { [ b \in 1..258 |->
        IF b = 1 THEN 106 ELSE IF b = 2 THEN 51
        ELSE IF b \in {2 * k + 1, 257} THEN 19 ELSE 0 ] : k \in {1, 2, 5} }

\* 60 11 ; 67 22 ; 6F 33 ; A<i> ; Fx55 ; Fx65 ; halt, and the same with
\* 60 FF ; 67 FF ; 6F FF between the store and the load; I is 0, 0x300 or
\* 4095 - x, where I + x is the last cell.
RoundTripPrograms ==
  UNION { { Bytes(<< WordK(6, 0, 17), WordK(6, 7, 34), WordK(6, 15, 51), WordN(10, i),
                     Word(15, x, 5, 5), Word(15, x, 6, 5), Halt(6) >>),
            Bytes(<< WordK(6, 0, 17), WordK(6, 7, 34), WordK(6, 15, 51), WordN(10, i),
                     Word(15, x, 5, 5), WordK(6, 0, 255), WordK(6, 7, 255),
                     WordK(6, 15, 255), Word(15, x, 6, 5), Halt(9) >>) } :
          << x, i >> \in { << r, a >> \in RegSamples \X {0, 768, 4080, 4088, 4095} :
                             a \in {0, 768, RAM_SIZE - 1 - r} } }

Programs ==
  {TwoWordProgram} \cup RoundTripPrograms \cup JumpPrograms \cup SkipPrograms \cup InvalidPrograms \cup AddressPrograms \cup AluPrograms \cup KeyPrograms \cup DrawPrograms \cup BcdPrograms \cup StorePrograms
    \cup StackPrograms \cup {NestedCallsProgram} \cup TimerPrograms \cup {LongestData, TooLongData}

\* ------------------------------------------------------------ the library's calls
TrailLen == 2

Entry(m) ==
  [ program_counter |-> m.program_counter,
    stack_pointer |-> m.stack_pointer,
    opcode |-> RamAt(m, m.program_counter) * 256 + RamAt(m, m.program_counter + 1),
    v_registers |-> m.v_registers,
    i_register |-> m.i_register,
    cleared |-> m.screen = {} ]

Record(t, e) ==
  IF Len(t) < TrailLen THEN Append(t, e) ELSE Append(Tail(t), e)

\* The word at the program counter, -1 when the fetch would fault.
NextOpcode ==
  IF program_counter + 1 < RAM_SIZE
  THEN RamAt(Chip8, program_counter) * 256 + RamAt(Chip8, program_counter + 1) ELSE -1

\* The word is a 2nnn / is 00EE.
Is2nnn(opcode) == opcode # -1 /\ digit1(opcode) = 2

Is00EE(opcode) == opcode = 238

\* The word is an Fx15 / an Fx18.
IsFx15(opcode) == opcode # -1 /\ digit1(opcode) = 15 /\ opcode % 256 = 21

IsFx18(opcode) == opcode # -1 /\ digit1(opcode) = 15 /\ opcode % 256 = 24

\* The calls of tick_timers() counted after a timer is set.
MaxTimerCalls == 5

\* A timer's log entry after one more call of tick_timers().
Counted(t) == IF t = << >> THEN t ELSE << t[1], t[2] + 1 >>

\* The word the last tick executed, -1 before any.
LastOpcode == IF trail = << >> THEN -1 ELSE trail[Len(trail)].opcode

\* What random() may return in the coming tick.
RandomBytes == IF NextOpcode # -1 /\ digit1(NextOpcode) = 12 THEN ByteSamples ELSE {0}

\* main.rs: Chip8::new(), in either build.
Init ==
  /\ program_counter = New.program_counter
  /\ ram = New.ram
  /\ screen = New.screen
  /\ v_registers = New.v_registers
  /\ i_register = New.i_register
  /\ delay_timer_register = New.delay_timer_register
  /\ sound_timer_register = New.sound_timer_register
  /\ stack_pointer = New.stack_pointer
  /\ stack = New.stack
  /\ key_states = New.key_states
  /\ panicked = New.panicked
  /\ overflow_checks \in BOOLEAN
  /\ loaded = FALSE
  /\ trail = << >>
  /\ rom = << >>
  /\ timer_log = [delay |-> << >>, sound |-> << >>]
  /\ call_log = << >>
  /\ calls = << >>
  /\ gameloop = "setup"
  /\ frame_ticks = 0

\* ---- the calls, by any caller of the library
\* load(data) for one of the programs, once, before the first tick.
DoLoad(programs) ==
  /\ ~panicked /\ ~loaded
  /\ \E data \in programs : Becomes(load(Chip8, data)) /\ rom' = data
  /\ loaded' = TRUE
  /\ UNCHANGED << overflow_checks, trail, timer_log, call_log >>

DoTick ==
  /\ ~panicked /\ loaded
  /\ \E byte \in RandomBytes : Becomes(tick(Chip8, byte))
  /\ trail' = IF NextOpcode = -1 THEN trail ELSE Record(trail, Entry(Chip8))
  /\ timer_log' =
       IF IsFx15(NextOpcode)
       THEN [timer_log EXCEPT !.delay = << v_registers[digit2(NextOpcode)], 0 >>]
       ELSE IF IsFx18(NextOpcode)
       THEN [timer_log EXCEPT !.sound = << v_registers[digit2(NextOpcode)], 0 >>]
       ELSE timer_log
  /\ call_log' =
       IF Is2nnn(NextOpcode) /\ ~panicked'
       THEN Append(call_log, [at |-> program_counter, stack_pointer |-> stack_pointer])
       ELSE IF Is00EE(NextOpcode) /\ ~panicked' /\ call_log # << >>
       THEN SubSeq(call_log, 1, Len(call_log) - 1)
       ELSE call_log
  /\ UNCHANGED << overflow_checks, loaded, rom >>

DoTickTimers ==
  /\ ~panicked /\ loaded
  /\ \A t \in {timer_log.delay, timer_log.sound} : t # << >> => t[2] < MaxTimerCalls
  /\ Becomes(tick_timers(Chip8))
  /\ timer_log' = [delay |-> Counted(timer_log.delay), sound |-> Counted(timer_log.sound)]
  /\ UNCHANGED << overflow_checks, loaded, trail, rom, call_log >>

DoKeypress(idx, pressed) ==
  /\ ~panicked
  /\ Becomes(keypress(Chip8, idx, pressed))
  /\ UNCHANGED << overflow_checks, loaded, trail, rom, timer_log, call_log >>

\* chip8.load(data)
Load == DoLoad(Programs) /\ UNCHANGED << calls, gameloop, frame_ticks >>

\* chip8.tick()
Tick == DoTick /\ UNCHANGED << calls, gameloop, frame_ticks >>

\* chip8.tick_timers()
TickTimers == DoTickTimers /\ UNCHANGED << calls, gameloop, frame_ticks >>

\* chip8.keypress(idx, pressed)
Keypress ==
  /\ \E idx \in KeySamples, pressed \in BOOLEAN : DoKeypress(idx, pressed)
  /\ UNCHANGED << calls, gameloop, frame_ticks >>

\* The library under any caller: the calls in any order.
Next == Load \/ Tick \/ TickTimers \/ Keypress

Spec == Init /\ [][Next]_vars

\* ------------------------------------------------------------ main (sdl/src/main.rs)
INSTRUCTION_PER_FRAME == 10

\* The programs main() is run on here: the waits for a key, and one that
\* faults in its second tick.
MainPrograms == KeyPrograms \cup { Bytes(<< 0, 61542, Halt(2) >>) }

\* The keys get_key_button maps a keycode to, among the samples.
MappedKeys == KeySamples

\* The frame's calls as a new iteration finds them: the log starts again once
\* the last frame has read the display.
Frame(log) == IF log # << >> /\ log[Len(log)] = "get_display" THEN << >> ELSE log

\* The events one poll_iter() yields, at most.
MaxEvents == 2

\* chip8.load(&buffer), then the game loop is entered.
MainLoad ==
  /\ gameloop = "setup"
  /\ DoLoad(MainPrograms)
  /\ gameloop' = IF panicked' THEN "setup" ELSE "events"
  /\ UNCHANGED << calls, frame_ticks >>

\* The event taken whenever it arrives, between the ticks of a frame too.
PollKey_Anytime ==
  /\ gameloop \in {"events", "ticks"}
  /\ Cardinality({ i \in DOMAIN Frame(calls) : Frame(calls)[i] = "keypress" }) < MaxEvents
  /\ \E idx \in MappedKeys, pressed \in BOOLEAN : DoKeypress(idx, pressed)
  /\ calls' = Append(Frame(calls), "keypress")
  /\ UNCHANGED << gameloop, frame_ticks >>

\* One event of event_pump.poll_iter(): KeyDown or KeyUp of a mapped key.
PollKey ==
  /\ gameloop = "events"
  /\ Len(Frame(calls)) < MaxEvents
  /\ \E idx \in MappedKeys, pressed \in BOOLEAN : DoKeypress(idx, pressed)
  /\ calls' = Append(Frame(calls), "keypress")
  /\ UNCHANGED << gameloop, frame_ticks >>

\* Event::Quit: break 'gameloop.
PollQuit ==
  /\ gameloop = "events" /\ ~panicked
  /\ gameloop' = "quit"
  /\ calls' = Frame(calls)
  /\ UNCHANGED << chip8_vars, panicked, overflow_checks, loaded, trail, rom, timer_log,
                  call_log, frame_ticks >>

\* poll_iter() is exhausted: the for loop over the ticks starts.
PollEnd ==
  /\ gameloop = "events" /\ ~panicked
  /\ gameloop' = "ticks"
  /\ frame_ticks' = 0
  /\ calls' = Frame(calls)
  /\ UNCHANGED << chip8_vars, panicked, overflow_checks, loaded, trail, rom, timer_log,
                  call_log >>

\* for _ in 0..INSTRUCTION_PER_FRAME { chip8.tick(); }
MainTick ==
  /\ gameloop = "ticks" /\ frame_ticks < INSTRUCTION_PER_FRAME
  /\ DoTick
  /\ frame_ticks' = frame_ticks + 1
  /\ calls' = Append(calls, "tick")
  /\ UNCHANGED gameloop

\* chip8.tick_timers()
MainTickTimers ==
  /\ gameloop = "ticks" /\ frame_ticks = INSTRUCTION_PER_FRAME
  /\ DoTickTimers
  /\ gameloop' = "draw"
  /\ calls' = Append(calls, "tick_timers")
  /\ UNCHANGED frame_ticks

\* draw_screen(&mut chip8, &mut canvas), the sleep, and the next iteration.
DrawScreen ==
  /\ gameloop = "draw" /\ ~panicked
  /\ gameloop' = "events"
  /\ frame_ticks' = 0
  /\ calls' = Append(calls, "get_display")
  /\ UNCHANGED << chip8_vars, panicked, overflow_checks, loaded, trail, rom, timer_log,
                  call_log >>

MainNext ==
  MainLoad \/ PollKey \/ PollQuit \/ PollEnd \/ MainTick \/ MainTickTimers \/ DrawScreen

\* main() is sequential code: unless the window is closed, each statement of
\* the loop is followed by the next.
MainFairness ==
  /\ WF_vars(MainLoad)
  /\ WF_vars(PollEnd)
  /\ WF_vars(MainTick)
  /\ WF_vars(MainTickTimers)
  /\ WF_vars(DrawScreen)

MainSpec == Init /\ [][MainNext]_vars /\ MainFairness

\* ------------------------------------------------------------ properties
\* The byte the memory holds at address a.
MemAt(a) == IF a \in DOMAIN ram THEN ram[a] ELSE 0

\* The last instruction executed, with the registers it found.
Last == trail[Len(trail)]

\* The last tick executed an instruction of the form 8xy<d4>.
LastIs8xy(d4) ==
  /\ trail # << >>
  /\ digit1(Last.opcode) = 8
  /\ digit4(Last.opcode) = d4

\* C1 as stated: after 8xy4 on Vx = a, Vy = b, for every x and y, VF is 1 iff
\* a + b > 255 and register x holds (a + b) mod 256.
C1_AddAsStated ==
  LastIs8xy(4) =>
    LET x == digit2(Last.opcode)
        y == digit3(Last.opcode)
        a == Last.v_registers[x]
        b == Last.v_registers[y]
    IN /\ v_registers[15] = (IF a + b > 255 THEN 1 ELSE 0)
       /\ v_registers[x] = (a + b) % 256

\* C1 (amended): after 8xy4 on Vx = a, Vy = b, VF is 1 iff a + b > 255, and
\* register x holds (a + b) mod 256 whenever x is not 0xF; no register other
\* than Vx and VF changes, and the step does not fault.
C1_AddWithCarry ==
  LastIs8xy(4) =>
    LET x == digit2(Last.opcode)
        y == digit3(Last.opcode)
        a == Last.v_registers[x]
        b == Last.v_registers[y]
    IN /\ ~panicked
       /\ v_registers[15] = (IF a + b > 255 THEN 1 ELSE 0)
       /\ x # 15 => v_registers[x] = (a + b) % 256
       /\ \A r \in 0..(V_REGISTERS - 1) :
            r \notin {x, 15} => v_registers[r] = Last.v_registers[r]

\* An 8xy4 with x # 0xF whose sum passed 255 has been executed.
C1_Witness ==
  /\ LastIs8xy(4)
  /\ digit2(Last.opcode) # 15
  /\ Last.v_registers[digit2(Last.opcode)] + Last.v_registers[digit3(Last.opcode)] > 255
  /\ v_registers[15] = 1

\* C2 as stated: after 8xy5 on Vx = a, Vy = b, for every x and y, VF is 1 iff
\* a >= b and register x holds (a - b) mod 256.
C2_SubAsStated ==
  LastIs8xy(5) =>
    LET x == digit2(Last.opcode)
        y == digit3(Last.opcode)
        a == Last.v_registers[x]
        b == Last.v_registers[y]
    IN /\ v_registers[15] = (IF a >= b THEN 1 ELSE 0)
       /\ v_registers[x] = (a - b) % 256

\* C2 (amended): after 8xy5 on Vx = a, Vy = b, VF is 1 iff a >= b, and
\* register x holds (a - b) mod 256 whenever x is not 0xF; no register other
\* than Vx and VF changes, and the step does not fault.
C2_SubNoBorrow ==
  LastIs8xy(5) =>
    LET x == digit2(Last.opcode)
        y == digit3(Last.opcode)
        a == Last.v_registers[x]
        b == Last.v_registers[y]
    IN /\ ~panicked
       /\ v_registers[15] = (IF a >= b THEN 1 ELSE 0)
       /\ x # 15 => v_registers[x] = (a - b) % 256
       /\ \A r \in 0..(V_REGISTERS - 1) :
            r \notin {x, 15} => v_registers[r] = Last.v_registers[r]

\* An 8xy5 with x # 0xF and a < b (a borrow) has been executed.
C2_Witness ==
  /\ LastIs8xy(5)
  /\ digit2(Last.opcode) # 15
  /\ Last.v_registers[digit2(Last.opcode)] < Last.v_registers[digit3(Last.opcode)]
  /\ v_registers[15] = 0
  /\ v_registers[digit2(Last.opcode)] > 0

\* The word is an Fx0A.
IsFx0A(opcode) ==
  opcode # -1 /\ digit1(opcode) = 15 /\ digit3(opcode) = 0 /\ digit4(opcode) = 10

NoKey == \A k \in 0..(NUM_KEYS - 1) : ~key_states[k]

\* The smallest index of a pressed key (when there is one).
LowestKey ==
  CHOOSE i \in 0..(NUM_KEYS - 1) :
    key_states[i] /\ \A j \in 0..(NUM_KEYS - 1) : j < i => ~key_states[j]

\* C3: one tick() on an Fx0A: with no key flag set, the program counter and
\* every register, memory cell, stack entry, timer, pixel and key flag are as
\* before the call; with a key flag set, register x holds the smallest
\* pressed index, the program counter is 2 further and nothing else changed.
C3_WaitForKey ==
  [][ (Tick /\ IsFx0A(NextOpcode)) =>
        IF NoKey
        THEN UNCHANGED << chip8_vars, panicked >>
        ELSE /\ ~panicked'
             /\ program_counter' = program_counter + 2
             /\ v_registers' = [v_registers EXCEPT ![digit2(NextOpcode)] = LowestKey]
             /\ UNCHANGED << ram, screen, i_register, delay_timer_register,
                             sound_timer_register, stack_pointer, stack, key_states >>
    ]_vars

\* An Fx0A has completed with two keys pressed and stored the lower one.
C3_Witness ==
  /\ trail # << >>
  /\ IsFx0A(Last.opcode)
  /\ program_counter = Last.program_counter + 2
  /\ Cardinality({k \in 0..(NUM_KEYS - 1) : key_states[k]}) = 2
  /\ key_states[v_registers[digit2(Last.opcode)]]
  /\ \E k \in 0..(NUM_KEYS - 1) : key_states[k] /\ k > v_registers[digit2(Last.opcode)]

\* The machine is running and the word at the program counter is an Fx0A.
AtWait == loaded /\ ~panicked /\ IsFx0A(NextOpcode)

\* C4: in main's loop, a tick at an Fx0A with no key flag set leaves the
\* machine at that instruction; the machine leaves the instruction only by a
\* tick made while a key flag is set, which moves to the following
\* instruction with the lowest pressed key stored; a tick is always possible
\* when the loop is due to make one (no call blocks); and a key flag set when
\* a tick is due leads to the instruction being completed.
C4_MainLoopKeyWait ==
  /\ [][ (AtWait /\ NoKey /\ MainTick) =>
           (program_counter' = program_counter /\ AtWait') ]_vars
  /\ [][ (AtWait /\ program_counter' # program_counter) =>
           /\ MainTick
           /\ ~NoKey
           /\ ~panicked'
           /\ program_counter' = program_counter + 2
           /\ v_registers'[digit2(NextOpcode)] = LowestKey ]_vars
  /\ [][ (AtWait /\ ~NoKey /\ MainTick) =>
           program_counter' = program_counter + 2 ]_vars
  /\ [](AtWait /\ gameloop = "ticks" /\ frame_ticks < INSTRUCTION_PER_FRAME
          => ENABLED MainTick)
  /\ (AtWait /\ ~NoKey /\ gameloop = "ticks" /\ frame_ticks < INSTRUCTION_PER_FRAME)
       ~> (/\ trail # << >>
           /\ IsFx0A(Last.opcode)
           /\ program_counter = Last.program_counter + 2)

\* A whole frame of ticks has left the machine at the Fx0A it waits at.
C4_Witness ==
  /\ AtWait
  /\ gameloop = "ticks"
  /\ frame_ticks = INSTRUCTION_PER_FRAME
  /\ Len(trail) = TrailLen
  /\ \A k \in 1..Len(trail) :
       IsFx0A(trail[k].opcode) /\ trail[k].program_counter = program_counter

\* The word is a Dxyn.
IsDxyn(opcode) == opcode # -1 /\ digit1(opcode) = 13

\* The last two ticks executed the same Dxyn, the first on a display with
\* every pixel off, both with the same address register and the same
\* coordinate values in Vx and Vy.
DrawnTwice ==
  /\ Len(trail) >= 2
  /\ LET first == trail[Len(trail) - 1]
         x == digit2(Last.opcode)
         y == digit3(Last.opcode)
     IN /\ IsDxyn(Last.opcode)
        /\ first.opcode = Last.opcode
        /\ first.cleared
        /\ first.i_register = Last.i_register
        /\ first.v_registers[x] = Last.v_registers[x]
        /\ first.v_registers[y] = Last.v_registers[y]

\* C5: the same sprite drawn twice in a row at the same coordinates on a
\* cleared display leaves every pixel off.
C5_DoubleDrawClears == (DrawnTwice /\ ~panicked) => screen = {}

\* A sprite of 15 rows with a set bit in its first row, whose columns pass
\* the right edge, has been drawn twice and every pixel is off.
C5_Witness ==
  /\ DrawnTwice /\ ~panicked
  /\ digit4(Last.opcode) = 15
  /\ MemAt(Last.i_register) # 0
  /\ Last.v_registers[digit2(Last.opcode)] % SCREEN_WIDTH > SCREEN_WIDTH - 8
  /\ screen = {}

\* The pixels the Dxyn at the program counter is to toggle: for row r and bit
\* c (most significant first) of the byte at I + r, when that bit is set, the
\* pixel at column (Vx + c) mod 64 and row (Vy + r) mod 32.
Targets ==
  LET x_coord == v_registers[digit2(NextOpcode)]
      y_coord == v_registers[digit3(NextOpcode)]
  IN { ((x_coord + c) % SCREEN_WIDTH) + SCREEN_WIDTH * ((y_coord + r) % SCREEN_HEIGHT) :
         << r, c >> \in { rc \in (0..(digit4(NextOpcode) - 1)) \X (0..7) :
                            Bit(MemAt(i_register + rc[1]), 7 - rc[2]) = 1 } }

\* The sprite rows of the Dxyn at the program counter lie within the memory.
SpriteInMemory == i_register + digit4(NextOpcode) <= RAM_SIZE

\* C6: a Dxyn toggles exactly the pixels of Targets and no other pixel, and
\* does not fault, whatever the values of Vx and Vy.
C6_DrawTogglesTargets ==
  [][ (Tick /\ IsDxyn(NextOpcode) /\ SpriteInMemory) =>
        /\ ~panicked'
        /\ screen' = (screen \ Targets) \cup (Targets \ screen) ]_vars

\* A sprite row drawn from column 63 has lit column 63 and then column 0 of
\* the same row.
C6_Witness ==
  /\ trail # << >> /\ IsDxyn(Last.opcode) /\ ~panicked
  /\ Last.v_registers[digit2(Last.opcode)] = 63
  /\ \E row \in 0..(SCREEN_HEIGHT - 1) :
       /\ 63 + SCREEN_WIDTH * row \in screen
       /\ SCREEN_WIDTH * row \in screen
       /\ 6 + SCREEN_WIDTH * row \in screen
       /\ 7 + SCREEN_WIDTH * row \notin screen

\* C7: after a Dxyn, VF is 1 iff one of the pixels it toggled was on before
\* the instruction (each pixel is toggled at most once, so that is its value
\* before its toggle) and 0 otherwise, with the coordinates taken from Vx and
\* Vy as they were before the instruction; no other register changes.
C7_DrawCollisionFlag ==
  [][ (Tick /\ IsDxyn(NextOpcode) /\ SpriteInMemory) =>
        v_registers' = [v_registers EXCEPT
                          ![15] = IF Targets \cap screen # {} THEN 1 ELSE 0] ]_vars

\* A Dxyn on a display that was not clear has reported a collision while
\* leaving pixels on.
C7_Witness ==
  /\ trail # << >> /\ IsDxyn(Last.opcode) /\ ~panicked
  /\ ~Last.cleared
  /\ v_registers[15] = 1
  /\ screen # {}

\* The 80 bytes at 0x000..0x04F are the font glyph table.
FontIntact ==
  \A a \in 0..(FONTSET_SIZE - 1) : MemAt(a) = FONTSET[a + 1]

IsFx33(opcode) ==
  opcode # -1 /\ digit1(opcode) = 15 /\ digit3(opcode) = 3 /\ digit4(opcode) = 3

IsFx55(opcode) ==
  opcode # -1 /\ digit1(opcode) = 15 /\ digit3(opcode) = 5 /\ digit4(opcode) = 5

\* C8 as stated: in every reachable state the bytes at 0x000..0x04F are the
\* font glyph table written at construction.
C8_FontAsStated == FontIntact

\* C8 (amended): the bytes at 0x000..0x04F are the font glyph table after
\* construction, and a step changes one of them only if it is a tick that
\* executes an Fx33 or an Fx55 with the address register below 0x50; load,
\* tick_timers, keypress and every other instruction leave them as they are.
C8_FontChangedOnlyByStores ==
  /\ [](~loaded => FontIntact)
  /\ [][ (\E a \in 0..(FONTSET_SIZE - 1) : MemAt(a)' # MemAt(a)) =>
           /\ Tick
           /\ IsFx33(NextOpcode) \/ IsFx55(NextOpcode)
           /\ i_register < FONTSET_SIZE ]_vars

\* An Fx55 with the address register right after the font has stored V0
\* there, and the font is as constructed.
C8_Witness ==
  /\ trail # << >> /\ IsFx55(Last.opcode) /\ ~panicked
  /\ Last.i_register = FONTSET_SIZE
  /\ MemAt(FONTSET_SIZE) = v_registers[0]
  /\ v_registers[0] # 0
  /\ FontIntact

\* C9 as stated: in every reachable state the stack pointer is between 0 and
\* 16; a call on the full stack faults without overwriting a stack entry, and
\* a return on the empty stack faults without setting the program counter
\* from a stack slot.
C9_StackAsStated ==
  /\ [](stack_pointer \in 0..STACK_SIZE)
  /\ [][ (Tick /\ Is2nnn(NextOpcode) /\ stack_pointer = STACK_SIZE) =>
           (panicked' /\ stack' = stack) ]_vars
  /\ [][ (Tick /\ Is00EE(NextOpcode) /\ stack_pointer = 0) =>
           (panicked' /\ program_counter' = program_counter + 2) ]_vars

\* C9 (amended): while the machine runs the stack pointer is between 0 and
\* 16; a call on the full stack faults with the stack and the pointer as they
\* were; a return on the empty stack faults with the stack as it was and the
\* program counter not set from a stack slot (it is the fetch's, 2 further),
\* and leaves the pointer of the dead machine at 0 in a build with overflow
\* checks and wrapped to 255 in one without.
C9_StackFaults ==
  /\ [](~panicked => stack_pointer \in 0..STACK_SIZE)
  /\ [](panicked => \/ stack_pointer \in 0..STACK_SIZE
                    \/ (stack_pointer = 255 /\ ~overflow_checks /\ Is00EE(Last.opcode)))
  /\ [][ (Tick /\ Is2nnn(NextOpcode) /\ stack_pointer = STACK_SIZE) =>
           (panicked' /\ stack' = stack /\ stack_pointer' = STACK_SIZE) ]_vars
  /\ [][ (Tick /\ Is00EE(NextOpcode) /\ stack_pointer = 0) =>
           /\ panicked'
           /\ stack' = stack
           /\ program_counter' = program_counter + 2
           /\ stack_pointer' = IF overflow_checks THEN 0 ELSE 255 ]_vars

\* A call on a stack of 16 return addresses has faulted and the 16 are there.
C9_Witness ==
  /\ panicked
  /\ trail # << >> /\ Is2nnn(Last.opcode)
  /\ stack_pointer = STACK_SIZE
  /\ \A k \in 0..(STACK_SIZE - 1) : stack[k] = START_ADDR + 2

\* C10: load(data) with more than 4096 - 0x200 bytes faults with every memory
\* cell (and every other field) as before; with at most that many it writes
\* data[i] to 0x200 + i for every i and changes no other memory cell,
\* register, timer, stack entry, key flag or pixel.
C10_LoadAllOrNothing ==
  [][ (~loaded /\ loaded') =>
        IF Len(rom') > RAM_SIZE - START_ADDR
        THEN /\ panicked'
             /\ \A a \in 0..(RAM_SIZE - 1) : MemAt(a)' = MemAt(a)
             /\ UNCHANGED << program_counter, screen, v_registers, i_register,
                             delay_timer_register, sound_timer_register,
                             stack_pointer, stack, key_states >>
        ELSE /\ ~panicked'
             /\ \A a \in 0..(RAM_SIZE - 1) :
                  MemAt(a)' =
                    IF a >= START_ADDR /\ a < START_ADDR + Len(rom')
                    THEN rom'[a - START_ADDR + 1] ELSE MemAt(a)
             /\ UNCHANGED << program_counter, screen, v_registers, i_register,
                             delay_timer_register, sound_timer_register,
                             stack_pointer, stack, key_states >> ]_vars

\* A load of 3585 bytes has faulted, with key flags set before it, and the
\* memory is as constructed.
C10_Witness ==
  /\ loaded /\ panicked
  /\ Len(rom) = RAM_SIZE - START_ADDR + 1
  /\ \E k \in 0..(NUM_KEYS - 1) : key_states[k]
  /\ \A a \in 0..(RAM_SIZE - 1) :
       MemAt(a) = IF a < FONTSET_SIZE THEN FONTSET[a + 1] ELSE 0

\* The instruction forms of the opcode table: 0000, 00E0, 00EE, 1nnn .. 4xkk,
\* 5xy0, 6xkk, 7xkk, 8xy0 .. 8xy7, 8xyE, 9xy0, Annn .. Dxyn, Ex9E, ExA1 and
\* Fx07, Fx0A, Fx15, Fx18, Fx1E, Fx29, Fx33, Fx55, Fx65.
InOpcodeTable(opcode) ==
  LET d1 == opcode \div 4096
      d4 == opcode % 16
      low == opcode % 256
  IN \/ opcode \in {0, 224, 238}
     \/ d1 \in {1, 2, 3, 4, 6, 7, 10, 11, 12, 13}
     \/ d1 \in {5, 9} /\ d4 = 0
     \/ d1 = 8 /\ d4 \in {0, 1, 2, 3, 4, 5, 6, 7, 14}
     \/ d1 = 14 /\ low \in {158, 161}
     \/ d1 = 15 /\ low \in {7, 10, 21, 24, 30, 41, 51, 85, 101}

\* C11: tick() on a word of none of the forms of the opcode table ends in a
\* fault with nothing but the program counter's advance done, and after a
\* fault no call executes anything: no field changes, no instruction is
\* executed.
C11_InvalidOpcodeFaults ==
  /\ [][ (Tick /\ NextOpcode # -1 /\ ~InOpcodeTable(NextOpcode)) =>
           /\ panicked'
           /\ program_counter' = program_counter + 2
           /\ UNCHANGED << ram, screen, v_registers, i_register, delay_timer_register,
                           sound_timer_register, stack_pointer, stack, key_states >> ]_vars
  /\ [][ panicked => (panicked' /\ UNCHANGED chip8_vars /\ trail' = trail) ]_vars

\* F066, of the F group but of none of its forms, has faulted: the halt after
\* it was not reached.
C11_Witness ==
  /\ panicked
  /\ trail # << >> /\ Last.opcode = 61542
  /\ ~InOpcodeTable(Last.opcode)
  /\ program_counter = At(2)

IsFx65(opcode) == digit1(opcode) = 15 /\ opcode % 256 = 101

\* The coming step changes no memory cell outside lo..hi.
RamChangedOnlyIn(lo, hi) ==
  \A a \in (DOMAIN ram) \cup (DOMAIN ram') : (a < lo \/ a > hi) => MemAt(a)' = MemAt(a)

\* C12: a memory access at an address of 4096 or more ends in a fault: the
\* fetch at PC and PC + 1 (nothing changes), Fx33 at I..I+2 and Fx55 at
\* I..I+x (only cells of I..I+x below 4096 change), Fx65 at I..I+x (no cell
\* changes, and a register changes only to the cell of its own address) and
\* Dxyn at I..I+n-1 (no cell and no register changes); no instruction
\* changes a cell outside the range it addresses.
C12_OutOfRangeFaults ==
  [][ Tick =>
        /\ (program_counter + 1 >= RAM_SIZE) => (panicked' /\ UNCHANGED chip8_vars)
        /\ (NextOpcode # -1) =>
             LET op == NextOpcode
                 x == digit2(op)
                 n == digit4(op)
                 I == i_register
             IN /\ (IsFx33(op) /\ I + 2 >= RAM_SIZE) => panicked'
                /\ (IsFx55(op) /\ I + x >= RAM_SIZE) => panicked'
                /\ (IsFx65(op) /\ I + x >= RAM_SIZE) => panicked'
                /\ (IsDxyn(op) /\ n > 0 /\ I + n - 1 >= RAM_SIZE) =>
                     (panicked' /\ v_registers' = v_registers)
                /\ IsFx33(op) => RamChangedOnlyIn(I, I + 2)
                /\ IsFx55(op) => RamChangedOnlyIn(I, I + x)
                /\ (~IsFx33(op) /\ ~IsFx55(op)) => ram' = ram
                /\ IsFx65(op) =>
                     \A r \in 0..(V_REGISTERS - 1) :
                        v_registers'[r] # v_registers[r] =>
                          (r <= x /\ I + r < RAM_SIZE /\ v_registers'[r] = MemAt(I + r))
                /\ (IsFx33(op) \/ IsFx55(op)) => v_registers' = v_registers ]_vars

\* F255 with I = 0xFFFF has faulted and the font and the program are as loaded.
C12_Witness ==
  /\ panicked
  /\ trail # << >> /\ IsFx55(Last.opcode)
  /\ Last.i_register = 65535
  /\ FontIntact
  /\ \A k \in 1..Len(rom) : MemAt(START_ADDR + k - 1) = rom[k]

\* The value of a timer set to v after k calls of tick_timers().
Countdown(t) == IF t[1] > t[2] THEN t[1] - t[2] ELSE 0

\* C13: tick_timers() takes 1 from each timer that is above 0, leaves a timer
\* at 0 there, and changes nothing else; a timer set to v by Fx15 / Fx18 and
\* followed by k calls of tick_timers() holds max(v - k, 0); tick() changes a
\* timer only by Fx15 / Fx18, to the value of Vx.
C13_TimersCountDown ==
  /\ [][ TickTimers =>
           /\ delay_timer_register' =
                IF delay_timer_register > 0 THEN delay_timer_register - 1 ELSE 0
           /\ sound_timer_register' =
                IF sound_timer_register > 0 THEN sound_timer_register - 1 ELSE 0
           /\ ~panicked'
           /\ UNCHANGED << program_counter, ram, screen, v_registers, i_register,
                           stack_pointer, stack, key_states >> ]_vars
  /\ [](timer_log.delay # << >> => delay_timer_register = Countdown(timer_log.delay))
  /\ [](timer_log.sound # << >> => sound_timer_register = Countdown(timer_log.sound))
  /\ [][ Tick =>
           /\ delay_timer_register' # delay_timer_register =>
                (IsFx15(NextOpcode)
                   /\ delay_timer_register' = v_registers[digit2(NextOpcode)])
           /\ sound_timer_register' # sound_timer_register =>
                (IsFx18(NextOpcode)
                   /\ sound_timer_register' = v_registers[digit2(NextOpcode)]) ]_vars

\* The delay timer, set to 3, has reached 0 and stayed there over a further
\* call, while the sound timer, set to 2 later, still counts.
C13_Witness ==
  /\ timer_log.delay # << >> /\ timer_log.delay[1] = 3 /\ timer_log.delay[2] > 3
  /\ delay_timer_register = 0
  /\ timer_log.sound # << >> /\ timer_log.sound[1] = 2 /\ timer_log.sound[2] = 1
  /\ sound_timer_register = 1

\* The calls of a frame after its keypresses: ten tick(), one tick_timers(),
\* one read of the display.
FrameCalls ==
  [ i \in 1..(INSTRUCTION_PER_FRAME + 2) |->
      IF i <= INSTRUCTION_PER_FRAME THEN "tick"
      ELSE IF i = INSTRUCTION_PER_FRAME + 1 THEN "tick_timers" ELSE "get_display" ]

\* The number of keypresses the log starts with.
RECURSIVE LeadingKeypresses(_)
LeadingKeypresses(log) ==
  IF log # << >> /\ Head(log) = "keypress" THEN 1 + LeadingKeypresses(Tail(log)) ELSE 0

\* The log without its leading keypresses.
AfterKeypresses(log) == SubSeq(log, LeadingKeypresses(log) + 1, Len(log))

\* The frame has made all its calls.
FrameComplete == calls # << >> /\ calls[Len(calls)] = "get_display"

C15_BcdDigits ==
  [][ (Tick /\ IsFx33(NextOpcode) /\ i_register + 2 < RAM_SIZE) =>
        LET v == v_registers[digit2(NextOpcode)]
            I == i_register
        IN /\ ~panicked'
           /\ MemAt(I)' = v \div 100
           /\ MemAt(I + 1)' = (v \div 10) % 10
           /\ MemAt(I + 2)' = v % 10
           /\ \A k \in 0..2 : MemAt(I + k)' \in 0..9
           /\ 100 * MemAt(I)' + 10 * MemAt(I + 1)' + MemAt(I + 2)' = v
           /\ RamChangedOnlyIn(I, I + 2)
           /\ program_counter' = program_counter + 2
           /\ UNCHANGED << screen, v_registers, i_register, delay_timer_register,
                           sound_timer_register, stack_pointer, stack, key_states >> ]_vars

\* Fx33 on 157 has stored 1, 5, 7 at 0x300.
C15_Witness ==
  /\ ~panicked
  /\ trail # << >> /\ IsFx33(Last.opcode)
  /\ Last.v_registers[digit2(Last.opcode)] = 157
  /\ Last.i_register = 768 /\ i_register = 768
  /\ MemAt(768) = 1 /\ MemAt(769) = 5 /\ MemAt(770) = 7

\* The last tick executed an 8xy6 or an 8xyE.
LastIsShift == LastIs8xy(6) \/ LastIs8xy(14)

\* The bit shifted out of a, and a shifted, by the shift executed last.
ShiftedOut(a) == IF digit4(Last.opcode) = 6 THEN a % 2 ELSE (a \div 128) % 2

Shifted(a) == IF digit4(Last.opcode) = 6 THEN a \div 2 ELSE (a * 2) % 256

\* C16 as stated: after 8xy6 / 8xyE on Vx = a, for all x and y, VF is the bit
\* shifted out of a, register x holds a shifted, and register y (when it is
\* another register than x) holds what it held.
C16_ShiftAsStated ==
  LastIsShift =>
    LET x == digit2(Last.opcode)
        y == digit3(Last.opcode)
        a == Last.v_registers[x]
    IN /\ v_registers[15] = ShiftedOut(a)
       /\ v_registers[x] = Shifted(a)
       /\ y # x => v_registers[y] = Last.v_registers[y]

\* C16 (amended): after 8xy6 / 8xyE on Vx = a, VF is the bit shifted out of
\* a (the least significant for 8xy6, the most significant for 8xyE), and
\* register x holds a >> 1, or (a << 1) mod 256, whenever x is not 0xF; no
\* register other than Vx and VF changes, so that Vy keeps its value unless
\* y is x or 0xF, and the value of Vy has no part in the result.
C16_ShiftFlagLast ==
  LastIsShift =>
    LET x == digit2(Last.opcode)
        a == Last.v_registers[x]
    IN /\ ~panicked
       /\ v_registers[15] = ShiftedOut(a)
       /\ x # 15 => v_registers[x] = Shifted(a)
       /\ \A r \in 0..(V_REGISTERS - 1) :
            r \notin {x, 15} => v_registers[r] = Last.v_registers[r]

\* An 8xyE on Vx = 255 with x # 0xF and another Vy has left VF = 1, Vx = 254.
C16_Witness ==
  /\ LastIs8xy(14)
  /\ digit2(Last.opcode) \notin {15, digit3(Last.opcode)}
  /\ Last.v_registers[digit2(Last.opcode)] = 255
  /\ Last.v_registers[digit3(Last.opcode)] # 255
  /\ v_registers[15] = 1
  /\ v_registers[digit2(Last.opcode)] = 254

\* The instruction at the program counter is a skip whose condition holds.
SkipTaken ==
  LET op == NextOpcode
      vx == v_registers[digit2(op)]
      vy == v_registers[digit3(op)]
  IN \/ digit1(op) = 3 /\ vx = op % 256
     \/ digit1(op) = 4 /\ vx # op % 256
     \/ digit1(op) = 5 /\ digit4(op) = 0 /\ vx = vy
     \/ digit1(op) = 9 /\ digit4(op) = 0 /\ vx # vy
     \/ digit1(op) = 14 /\ op % 256 = 158 /\ vx < NUM_KEYS /\ key_states[vx]
     \/ digit1(op) = 14 /\ op % 256 = 161 /\ vx < NUM_KEYS /\ ~key_states[vx]

\* The instruction at the program counter is a jump (1nnn, Bnnn), a call, a
\* return, a taken skip or a wait for a key with no key pressed.
ChangesFlow ==
  \/ digit1(NextOpcode) \in {1, 2, 11}
  \/ Is00EE(NextOpcode)
  \/ SkipTaken
  \/ IsFx0A(NextOpcode) /\ NoKey

\* C17: before the first tick the program counter is 0x200; after load of
\* 6A 05 00 00 and two ticks, register 10 holds 5, the program counter is
\* 0x204 and no other register has changed; every tick of an instruction
\* that is not a jump, a call, a return, a taken skip or an unsatisfied wait
\* for a key leaves the program counter 2 above its value before the tick.
C17_ProgramCounterAdvances ==
  /\ [](trail = << >> => program_counter = START_ADDR)
  /\ []((rom = << 106, 5, 0, 0 >> /\ trail # << >>
           /\ Last.program_counter = START_ADDR + 2) =>
          /\ ~panicked
          /\ program_counter = 516
          /\ v_registers = [r \in 0..(V_REGISTERS - 1) |-> IF r = 10 THEN 5 ELSE 0])
  /\ [][ (Tick /\ NextOpcode # -1 /\ ~ChangesFlow) =>
           program_counter' = program_counter + 2 ]_vars

\* 6A 05 00 00 has been loaded and ticked twice.
C17_Witness ==
  /\ rom = << 106, 5, 0, 0 >>
  /\ Len(trail) >= 2
  /\ trail[Len(trail) - 1].opcode = 27141 /\ trail[Len(trail) - 1].program_counter = START_ADDR
  /\ Last.opcode = 0 /\ Last.program_counter = START_ADDR + 2
  /\ v_registers[10] = 5
  /\ program_counter = 516

\* C18: 1nnn sets the program counter to nnn, whatever it was, and changes
\* no register, memory cell, stack entry, stack pointer, timer, pixel or key
\* flag; it does not fault.
C18_JumpSetsProgramCounter ==
  [][ (Tick /\ NextOpcode # -1 /\ digit1(NextOpcode) = 1) =>
        /\ program_counter' = NextOpcode % 4096
        /\ ~panicked'
        /\ UNCHANGED << ram, screen, v_registers, i_register, delay_timer_register,
                        sound_timer_register, stack_pointer, stack, key_states >> ]_vars

\* 1300 fetched at 0x20A has set the program counter to 0x300.
C18_Witness ==
  /\ ~panicked
  /\ trail # << >> /\ Last.opcode = 4864 /\ Last.program_counter = 522
  /\ program_counter = 768
  /\ v_registers[10] = 51

\* C19: a call 2nnn fetched at a, with room on the stack, stores a + 2 in the
\* slot of the stack pointer, adds 1 to the stack pointer and sets the
\* program counter to nnn; a return 00EE sets the program counter to the
\* slot below the stack pointer and takes 1 from the stack pointer; the
\* return taken from a call fetched at a that found the stack pointer at s
\* (the newest call not yet returned from) sets the program counter to a + 2
\* and the stack pointer to s, so that nested calls are returned from in the
\* reverse of their order; neither changes anything else.
C19_CallReturnLifo ==
  /\ [][ (Tick /\ Is2nnn(NextOpcode) /\ stack_pointer < STACK_SIZE) =>
           /\ ~panicked'
           /\ stack' = [stack EXCEPT ![stack_pointer] = program_counter + 2]
           /\ stack_pointer' = stack_pointer + 1
           /\ program_counter' = NextOpcode % 4096
           /\ UNCHANGED << ram, screen, v_registers, i_register, delay_timer_register,
                           sound_timer_register, key_states >> ]_vars
  /\ [][ (Tick /\ Is00EE(NextOpcode) /\ stack_pointer > 0) =>
           /\ ~panicked'
           /\ program_counter' = stack[stack_pointer - 1]
           /\ stack_pointer' = stack_pointer - 1
           /\ UNCHANGED << ram, screen, v_registers, i_register, delay_timer_register,
                           sound_timer_register, stack, key_states >> ]_vars
  /\ [][ (Tick /\ Is00EE(NextOpcode) /\ call_log # << >>) =>
           /\ ~panicked'
           /\ program_counter' = call_log[Len(call_log)].at + 2
           /\ stack_pointer' = call_log[Len(call_log)].stack_pointer ]_vars
  /\ [](~panicked => stack_pointer = Len(call_log))

\* The sixteen nested calls have been made (the sixteenth return address is
\* in the last slot) and returned from: the halt after the first call is
\* reached with the stack pointer at 0.
C19_Witness ==
  /\ ~panicked
  /\ rom = NestedCallsProgram
  /\ trail # << >> /\ Is00EE(Last.opcode) /\ Last.stack_pointer = 1
  /\ stack[STACK_SIZE - 1] = At(31)
  /\ \A k \in 0..(STACK_SIZE - 1) : stack[k] = At(2 * k + 1)
  /\ program_counter = At(1)
  /\ stack_pointer = 0

\* The last tick executed one of 8xy4, 8xy5, 8xy6, 8xy7, 8xyE.
LastSetsFlag == \E d \in {4, 5, 6, 7, 14} : LastIs8xy(d)

\* The flag and the result of the instruction executed last, from the values
\* a of Vx and b of Vy before it: carry, not-borrow or the bit shifted out.
FlagOf(a, b) ==
  CASE digit4(Last.opcode) = 4 -> IF a + b > 255 THEN 1 ELSE 0
    [] digit4(Last.opcode) = 5 -> IF a >= b THEN 1 ELSE 0
    [] digit4(Last.opcode) = 6 -> a % 2
    [] digit4(Last.opcode) = 7 -> IF b >= a THEN 1 ELSE 0
    [] digit4(Last.opcode) = 14 -> (a \div 128) % 2

ResultOf(a, b) ==
  CASE digit4(Last.opcode) = 4 -> (a + b) % 256
    [] digit4(Last.opcode) = 5 -> (a - b) % 256
    [] digit4(Last.opcode) = 6 -> a \div 2
    [] digit4(Last.opcode) = 7 -> (b - a) % 256
    [] digit4(Last.opcode) = 14 -> (a * 2) % 256

\* C20: after each of 8xy4, 8xy5, 8xy6, 8xy7 and 8xyE, VF holds the flag
\* computed from the values Vx and Vy held before the step, for every x,
\* 0xF included (the flag is written last and replaces the result there);
\* for x other than 0xF, register x holds the result and no register but Vx
\* and VF has changed.
C20_FlagWrittenLast ==
  LastSetsFlag =>
    LET x == digit2(Last.opcode)
        y == digit3(Last.opcode)
        a == Last.v_registers[x]
        b == Last.v_registers[y]
    IN /\ ~panicked
       /\ v_registers[15] = FlagOf(a, b)
       /\ x # 15 => v_registers[x] = ResultOf(a, b)
       /\ \A r \in 0..(V_REGISTERS - 1) :
            r \notin {x, 15} => v_registers[r] = Last.v_registers[r]

\* An 8Fy7 whose difference is not its flag has left the flag in VF.
C20_Witness ==
  /\ LastIs8xy(7)
  /\ digit2(Last.opcode) = 15
  /\ digit3(Last.opcode) # 15
  /\ ResultOf(Last.v_registers[15], Last.v_registers[digit3(Last.opcode)]) = 255
  /\ FlagOf(Last.v_registers[15], Last.v_registers[digit3(Last.opcode)]) = 0
  /\ v_registers[15] = 0

\* The last two ticks executed an Fx55 and then, at the next address, the
\* Fx65 of the same x, with the same address register, I + x in memory.
StoredThenLoaded ==
  /\ Len(trail) >= 2
  /\ LET first == trail[Len(trail) - 1]
     IN /\ IsFx55(first.opcode) /\ IsFx65(Last.opcode)
        /\ digit2(first.opcode) = digit2(Last.opcode)
        /\ first.i_register = Last.i_register
        /\ Last.program_counter = first.program_counter + 2
        /\ Last.i_register + digit2(Last.opcode) < RAM_SIZE

\* C21: with I + x in memory, Fx55 writes V0..Vx to I..I+x and changes no
\* other cell, no register and not I; Fx65 sets V0..Vx to the cells I..I+x
\* and changes no other register, no cell and not I; neither faults; Fx55
\* followed by Fx65 with the same x and I leaves every register as it was
\* before the Fx55.
C21_StoreLoadRoundTrip ==
  /\ [][ (Tick /\ IsFx55(NextOpcode) /\ i_register + digit2(NextOpcode) < RAM_SIZE) =>
           LET x == digit2(NextOpcode)
               I == i_register
           IN /\ ~panicked'
              /\ \A k \in 0..x : MemAt(I + k)' = v_registers[k]
              /\ RamChangedOnlyIn(I, I + x)
              /\ program_counter' = program_counter + 2
              /\ UNCHANGED << screen, v_registers, i_register, delay_timer_register,
                              sound_timer_register, stack_pointer, stack, key_states >> ]_vars
  /\ [][ (Tick /\ IsFx65(NextOpcode) /\ i_register + digit2(NextOpcode) < RAM_SIZE) =>
           LET x == digit2(NextOpcode)
               I == i_register
           IN /\ ~panicked'
              /\ \A r \in 0..(V_REGISTERS - 1) :
                   v_registers'[r] = IF r <= x THEN MemAt(I + r) ELSE v_registers[r]
              /\ program_counter' = program_counter + 2
              /\ UNCHANGED << ram, screen, i_register, delay_timer_register,
                              sound_timer_register, stack_pointer, stack, key_states >> ]_vars
  /\ [](StoredThenLoaded =>
          /\ ~panicked
          /\ v_registers = trail[Len(trail) - 1].v_registers
          /\ i_register = Last.i_register
          /\ \A k \in 0..digit2(Last.opcode) : MemAt(i_register + k) = v_registers[k])

\* FF55 then FF65 at I = 0xFF0: the sixteen registers are in the last sixteen
\* cells and hold what they held.
C21_Witness ==
  /\ StoredThenLoaded
  /\ ~panicked
  /\ digit2(Last.opcode) = 15
  /\ i_register = 4080
  /\ v_registers[0] = 17 /\ v_registers[7] = 34 /\ v_registers[15] = 51
  /\ MemAt(4080) = 17 /\ MemAt(4087) = 34 /\ MemAt(4095) = 51

====
